---- MODULE Spec2Model ----
(***************************************************************************)
(* Model of the card store (CardManager) of the wallet application.        *)
(*                                                                         *)
(* Card objects are JavaScript objects, held by reference: the store's     *)
(* array `cards` holds references (addresses) into `heap`, and so do the   *)
(* values the store hands back to its caller.  Text fields that the code   *)
(* tests with a regular expression (number, expiry, cvv) are sequences of  *)
(* one-character strings; the other text fields are only tested for        *)
(* emptiness and equality and are plain strings.                           *)
(***************************************************************************)
EXTENDS Integers, Sequences, FiniteSets, TLC

\* ---------------------------------------------------------------- bounds
MaxCards == 2      \* longest array the store is driven to
MaxTime  == 1      \* last reading of the clock

\* ----------------------------------------------------------- characters
Digit      == {"0", "1", "2", "3", "4", "5", "6", "7", "8", "9"}
Whitespace == {" ", "\t"}

Rep(ch, n) == [i \in 1..n |-> ch]

Range(s) == {s[i] : i \in 1..Len(s)}

\* card.number.replace(/\s/g, '')
StripWhitespace(s) == SelectSeq(s, LAMBDA ch : ch \notin Whitespace)

\* /^\d{13,19}$/.test(s)
NumberRegex(s) == /\ Len(s) >= 13
                  /\ Len(s) <= 19
                  /\ \A i \in 1..Len(s) : s[i] \in Digit

\* /^\d{2}\/\d{2}$/.test(s)
ExpiryRegex(s) == /\ Len(s) = 5
                  /\ s[1] \in Digit
                  /\ s[2] \in Digit
                  /\ s[3] = "/"
                  /\ s[4] \in Digit
                  /\ s[5] \in Digit

\* as CvvRegex, the lower bound of the repetition lost: /^\d{0,4}$/
CvvRegexNoLowerBound(s) == /\ Len(s) <= 4
                           /\ \A i \in 1..Len(s) : s[i] \in Digit

\* /^\d{3,4}$/.test(s)
CvvRegex(s) == /\ Len(s) >= 3
               /\ Len(s) <= 4
               /\ \A i \in 1..Len(s) : s[i] \in Digit

\* ------------------------------------------------------------ card data
NoDate == -1       \* lastUsed is undefined

Ok == "ok"
ErrId      == "Card ID is required"
ErrName    == "Card name is required"
ErrNumber  == "Card number is required"
ErrExpiry  == "Card expiry is required"
ErrCvv     == "Card CVV is required"
ErrHolder  == "Cardholder name is required"
ErrNumberFormat == "Invalid card number format"
ErrExpiryFormat == "Invalid expiry date format (should be MM/YY)"
ErrCvvFormat    == "Invalid CVV format (should be 3-4 digits)"
ErrNotFound     == "Card with ID not found"

ValidationErrors == {ErrId, ErrName, ErrNumber, ErrExpiry, ErrCvv, ErrHolder,
                     ErrNumberFormat, ErrExpiryFormat, ErrCvvFormat}

\* as validateCard, the format of the CVV tested before that of the expiry
validateCardCvvBeforeExpiry(card) ==
    IF card.id = "" THEN ErrId
    ELSE IF card.name = "" THEN ErrName
    ELSE IF card.number = <<>> THEN ErrNumber
    ELSE IF card.expiry = <<>> THEN ErrExpiry
    ELSE IF card.cvv = <<>> THEN ErrCvv
    ELSE IF card.cardholderName = "" THEN ErrHolder
    ELSE IF ~NumberRegex(StripWhitespace(card.number)) THEN ErrNumberFormat
    ELSE IF ~CvvRegex(card.cvv) THEN ErrCvvFormat
    ELSE IF ~ExpiryRegex(card.expiry) THEN ErrExpiryFormat
    ELSE Ok

\* validateCard: the message of the error thrown, or Ok when it returns
validateCard(card) ==
    IF card.id = "" THEN ErrId
    ELSE IF card.name = "" THEN ErrName
    ELSE IF card.number = <<>> THEN ErrNumber
    ELSE IF card.expiry = <<>> THEN ErrExpiry
    ELSE IF card.cvv = <<>> THEN ErrCvv
    ELSE IF card.cardholderName = "" THEN ErrHolder
    ELSE IF ~NumberRegex(StripWhitespace(card.number)) THEN ErrNumberFormat
    ELSE IF ~ExpiryRegex(card.expiry) THEN ErrExpiryFormat
    ELSE IF ~CvvRegex(card.cvv) THEN ErrCvvFormat
    ELSE Ok

\* ------------------------------------------------- cards the caller makes
Group4 == Rep("4", 4)

BaseCard == [id             |-> "a",
             name           |-> "N",
             number         |-> Group4 \o <<" ">> \o Group4 \o <<" ">>
                                \o Group4 \o <<"\t">> \o Group4,
             expiry         |-> <<"1", "2", "/", "2", "5">>,
             cvv            |-> <<"1", "2", "3">>,
             cardholderName |-> "H",
             type           |-> "visa",
             categories     |-> {},
             cashback       |-> <<>>,
             perks          |-> <<>>,
             lastUsed       |-> NoDate]

AltCard == [BaseCard EXCEPT !.name     = "M",
                            !.number   = Rep("9", 13),
                            !.expiry   = <<"1", "3", "/", "0", "1">>,
                            !.cvv      = <<"0", "1", "2", "3">>,
                            !.lastUsed = 0]

Ids == {"a", "b"}

GoodCards == {[c EXCEPT !.id = i] : c \in {BaseCard, AltCard}, i \in Ids}

BadCards ==
    {[BaseCard EXCEPT !.id = ""],
     [BaseCard EXCEPT !.name = ""],
     [BaseCard EXCEPT !.id = "b", !.number = Rep("4", 12)],
     [BaseCard EXCEPT !.number = Rep("4", 12) \o <<"x">>],
     [BaseCard EXCEPT !.expiry = <<"1", "/", "2", "5">>],
     [BaseCard EXCEPT !.cvv = <<"1", "2">>],
     [BaseCard EXCEPT !.cvv = <<"1", "2", "3", "4", "5">>]}

CardInputs == GoodCards \cup BadCards

IdInputs == Ids \cup {""}

\* ---------------------------------------------------------------- state
VARIABLES cards,   \* CardManager.cards: array of references
          heap,    \* the card objects that are still referenced
          now,     \* the clock read by new Date()
          last,    \* the last call of the caller and what it returned
          task,    \* the call of updateCardLastUsed whose body is being run
          sug,     \* a call of AICardSuggester.suggestCard: arguments, result
          nav      \* NavigationProvider: the history rendered, updates queued

storeVars == <<cards, heap, now, last>>

\* the variables outside the card store
otherVars == <<sug, nav>>

vars == <<cards, heap, now, last, task, sug, nav>>

Addr == 1..(MaxCards + 1)

Null == 0          \* the null reference

\* what the caller knows of its last call: the operation and its arguments
\* (id, card), the message of the error thrown (err), the value returned
\* (ref: a card or null, arr: an array, bool), and whether the caller has
\* since written to the returned value (edit)
NoCall == [op |-> "none", id |-> "", card |-> BaseCard, err |-> Ok,
           ref |-> Null, arr |-> <<>>, bool |-> FALSE, edit |-> "none"]

Call(op, id, card) == [NoCall EXCEPT !.op = op, !.id = id, !.card = card]

\* a fresh object: the lowest address not in use
NewAddr(h) == CHOOSE a \in Addr \ DOMAIN h :
                  \A b \in Addr \ DOMAIN h : a <= b

\* objects nothing refers to any more are dropped
Collect(h, cs) == [a \in (DOMAIN h) \cap Range(cs) |-> h[a]]

\* Array.prototype.findIndex(c => c.id === id); 0 stands for -1
findIndex(cs, h, id) ==
    IF \E i \in 1..Len(cs) : h[cs[i]].id = id
    THEN CHOOSE i \in 1..Len(cs) :
             /\ h[cs[i]].id = id
             /\ \A j \in 1..(i - 1) : h[cs[j]].id # id
    ELSE 0

\* Array.prototype.find(c => c.id === id); Null stands for undefined
find(cs, h, id) ==
    LET i == findIndex(cs, h, id) IN IF i = 0 THEN Null ELSE cs[i]

\* the cards list() shows, by value
ListView(cs, h) == [i \in 1..Len(cs) |-> h[cs[i]]]

\* ------------------------------------------------------- CardManager code
\* Each method is a function of the store (cs, h) and its arguments to the
\* store it leaves and the outcome: err is the message thrown or Ok.
Outcome(cs, h, err, ref) == [cards |-> cs, heap |-> h, err |-> err, ref |-> ref]

\* as addCard, the push done before the validation
addCardPushFirst(cs, h, card) ==
    LET err == validateCard(card)
        a   == NewAddr(h)
    IN  Outcome(Append(cs, a), (a :> card) @@ h, err, IF err = Ok THEN a ELSE Null)

\* addCard(card), card being an object the caller has just made
addCard(cs, h, card) ==
    LET err == validateCard(card)
        a   == NewAddr(h)
    IN  IF err # Ok THEN Outcome(cs, h, err, Null)
        ELSE Outcome(Append(cs, a), (a :> card) @@ h, Ok, a)

\* as updateCard, a card that is not found being added instead
updateCardUpsert(cs, h, card) ==
    LET err   == validateCard(card)
        index == findIndex(cs, h, card.id)
        a     == NewAddr(h)
        ncs   == IF index = 0 THEN Append(cs, a) ELSE [cs EXCEPT ![index] = a]
    IN  IF err # Ok THEN Outcome(cs, h, err, Null)
        ELSE Outcome(ncs, Collect((a :> card) @@ h, ncs), Ok, a)

\* as updateCard, the old record removed and the new one pushed at the end
updateCardMoveToEnd(cs, h, card) ==
    LET err   == validateCard(card)
        index == findIndex(cs, h, card.id)
        a     == NewAddr(h)
        ncs   == Append(SubSeq(cs, 1, index - 1) \o SubSeq(cs, index + 1, Len(cs)), a)
    IN  IF err # Ok THEN Outcome(cs, h, err, Null)
        ELSE IF index = 0 THEN Outcome(cs, h, ErrNotFound, Null)
        ELSE Outcome(ncs, Collect((a :> card) @@ h, ncs), Ok, a)

\* as updateCard, the record looked up by its name:
\* this.cards.findIndex(c => c.name === card.name)
updateCardByName(cs, h, card) ==
    LET err   == validateCard(card)
        named == {i \in 1..Len(cs) : h[cs[i]].name = card.name}
        index == IF named = {} THEN 0
                 ELSE CHOOSE i \in named : \A j \in named : i <= j
        a     == NewAddr(h)
        ncs   == [cs EXCEPT ![index] = a]
    IN  IF err # Ok THEN Outcome(cs, h, err, Null)
        ELSE IF index = 0 THEN Outcome(cs, h, ErrNotFound, Null)
        ELSE Outcome(ncs, Collect((a :> card) @@ h, ncs), Ok, a)

\* updateCard(card), card being a new object
updateCard(cs, h, card) ==
    LET err   == validateCard(card)
        index == findIndex(cs, h, card.id)
        a     == NewAddr(h)
        ncs   == [cs EXCEPT ![index] = a]
    IN  IF err # Ok THEN Outcome(cs, h, err, Null)
        ELSE IF index = 0 THEN Outcome(cs, h, ErrNotFound, Null)
        ELSE Outcome(ncs, Collect((a :> card) @@ h, ncs), Ok, a)

\* as deleteCard, only the record found removed: cards.splice(index, 1)
deleteCardSplice(cs, h, cardId) ==
    LET index == findIndex(cs, h, cardId)
        ncs   == SubSeq(cs, 1, index - 1) \o SubSeq(cs, index + 1, Len(cs))
    IN  IF index = 0 THEN Outcome(cs, h, ErrNotFound, Null)
        ELSE Outcome(ncs, Collect(h, ncs), Ok, Null)

\* deleteCard(cardId)
deleteCard(cs, h, cardId) ==
    LET index == findIndex(cs, h, cardId)
        ncs   == SelectSeq(cs, LAMBDA a : h[a].id # cardId)
    IN  IF index = 0 THEN Outcome(cs, h, ErrNotFound, Null)
        ELSE Outcome(ncs, Collect(h, ncs), Ok, Null)

\* as getCardById, the index tested for truth: index ? cards[index] : null
getCardByIdFalsyIndex(cs, h, cardId) ==
    LET index == findIndex(cs, h, cardId)
    IN  IF index <= 1 THEN Null ELSE cs[index]

\* getCardById(cardId): card || null
getCardById(cs, h, cardId) == find(cs, h, cardId)

\* as updateCardLastUsed, the first record of the array stamped instead of
\* the one found
updateCardLastUsedFirst(cs, h, cardId, t) ==
    LET card == find(cs, h, cardId)
    IN  IF card = Null THEN Outcome(cs, h, ErrNotFound, Null)
        ELSE updateCard(cs, h, [h[cs[1]] EXCEPT !.lastUsed = t])

\* as updateCardLastUsed, the spread of the card forgotten: { lastUsed: new Date() }
updateCardLastUsedNoSpread(cs, h, cardId, t) ==
    LET card == find(cs, h, cardId)
    IN  IF card = Null THEN Outcome(cs, h, ErrNotFound, Null)
        ELSE updateCard(cs, h, [h[card] EXCEPT !.id = "", !.name = "",
                                   !.number = <<>>, !.expiry = <<>>, !.cvv = <<>>,
                                   !.cardholderName = "", !.lastUsed = t])

\* as updateCardLastUsed, the stamped record put at the end of the array
updateCardLastUsedMoveToEnd(cs, h, cardId, t) ==
    LET card == find(cs, h, cardId)
    IN  IF card = Null THEN Outcome(cs, h, ErrNotFound, Null)
        ELSE updateCardMoveToEnd(cs, h, [h[card] EXCEPT !.lastUsed = t])

\* updateCardLastUsed(cardId) at clock reading t
updateCardLastUsed(cs, h, cardId, t) ==
    LET card == find(cs, h, cardId)
    IN  IF card = Null THEN Outcome(cs, h, ErrNotFound, Null)
        ELSE updateCard(cs, h, [h[card] EXCEPT !.lastUsed = t])

\* ---------------------------------------------------------------- steps
\* no body of updateCardLastUsed is being run
Idle == [pc |-> "idle", id |-> "", card |-> BaseCard]

\* suggestCard is not being called
SugOff == [pc |-> "off"]

\* enum Screen
HOME == "HOME"

Screen == {HOME, "ADD_CARD", "SUGGESTION"}

\* the navigation after the first render: useState<Screen[]>([Screen.HOME]),
\* no update of the state queued
NavInit == [history |-> <<HOME>>, queue |-> <<>>]

StoreInit == /\ cards = <<>>
             /\ heap = <<>>
             /\ now = 0
             /\ last = NoCall
             /\ task = Idle

Init == /\ StoreInit
        /\ sug = SugOff
        /\ nav = NavInit

\* A call leaves the store r.cards, r.heap.  A program cannot observe the
\* address of an object, so the addresses are renamed after every call: the
\* object at position i of the array gets address i.
PositionOf(cs, a) == IF a = Null THEN Null ELSE CHOOSE i \in 1..Len(cs) : cs[i] = a

Apply(r, call) ==
    /\ Len(r.cards) <= MaxCards
    /\ cards' = [i \in 1..Len(r.cards) |-> i]
    /\ heap' = ListView(r.cards, r.heap)
    /\ last' = [call EXCEPT !.err = r.err, !.ref = PositionOf(r.cards, r.ref)]
    /\ UNCHANGED now

GetCards ==
    /\ last' = [Call("getCards", "", BaseCard) EXCEPT !.arr = cards]
    /\ UNCHANGED <<cards, heap, now, task, otherVars>>

AddCard(card) ==
    /\ card \in CardInputs
    /\ Apply(addCard(cards, heap, card), Call("add", card.id, card))
    /\ UNCHANGED <<task, otherVars>>

UpdateCard(card) ==
    /\ card \in CardInputs
    /\ Apply(updateCard(cards, heap, card), Call("update", card.id, card))
    /\ UNCHANGED <<task, otherVars>>

DeleteCard(cardId) ==
    /\ cardId \in IdInputs
    /\ LET r == deleteCard(cards, heap, cardId)
       IN  Apply(r, [Call("delete", cardId, BaseCard) EXCEPT !.bool = (r.err = Ok)])
    /\ UNCHANGED <<task, otherVars>>

GetCardById(cardId) ==
    /\ last' = [Call("getById", cardId, BaseCard)
                   EXCEPT !.ref = getCardById(cards, heap, cardId)]
    /\ UNCHANGED <<cards, heap, now, task, otherVars>>

UpdateCardLastUsed(cardId) ==
    /\ cardId \in IdInputs
    /\ Apply(updateCardLastUsed(cards, heap, cardId, now),
             Call("markUsed", cardId, BaseCard))
    /\ UNCHANGED <<task, otherVars>>

\* time passes
Tick ==
    /\ now < MaxTime
    /\ now' = now + 1
    /\ UNCHANGED <<cards, heap, last, task, otherVars>>

\* The caller writes to the array getCards() gave it: it pushes an element,
\* pops one, or reverses the array.
CallerEditsArray ==
    /\ last.op = "getCards"
    /\ last.edit = "none"
    /\ \E arr \in {SubSeq(last.arr, 1, Len(last.arr) - 1),
                    [i \in 1..Len(last.arr) |-> last.arr[Len(last.arr) + 1 - i]]}
                   \cup {Append(last.arr, a) : a \in Range(last.arr)} :
           /\ Len(arr) <= MaxCards + 1
           /\ last' = [last EXCEPT !.arr = arr, !.edit = "array"]
    /\ UNCHANGED <<cards, heap, now, task, otherVars>>

\* the card objects the caller has in hand from its last call
Held == (Range(last.arr) \cup {last.ref}) \cap DOMAIN heap

\* The caller assigns to a field of a card object it has in hand.
CallerEditsCard ==
    /\ \E a \in Held :
           /\ heap' = [heap EXCEPT ![a].name = ""]
           /\ last' = [last EXCEPT !.edit = "card"]
    /\ UNCHANGED <<cards, now, task, otherVars>>

Next ==
    \/ GetCards
    \/ \E card \in CardInputs : AddCard(card)
    \/ \E card \in CardInputs : UpdateCard(card)
    \/ \E cardId \in IdInputs : DeleteCard(cardId)
    \/ \E cardId \in IdInputs : GetCardById(cardId)
    \/ \E cardId \in IdInputs : UpdateCardLastUsed(cardId)
    \/ Tick

\* the store, driven by a caller that only calls it
Spec == Init /\ [][Next]_vars

CallerNext ==
    \/ Next
    \/ CallerEditsArray
    \/ CallerEditsCard

\* the store and a caller that also writes to the values the store returned
SpecCaller == Init /\ [][CallerNext]_vars

\* ------------------------------------------------ cards with several faults
\* each card breaks two rules of validateCard that follow one another
ManyFaults ==
    {[BaseCard EXCEPT !.id = "", !.name = ""],
     [BaseCard EXCEPT !.name = "", !.number = <<>>],
     [BaseCard EXCEPT !.number = <<>>, !.expiry = <<>>],
     [BaseCard EXCEPT !.expiry = <<>>, !.cvv = <<>>],
     [BaseCard EXCEPT !.cvv = <<>>, !.cardholderName = ""],
     [BaseCard EXCEPT !.cardholderName = "", !.number = Rep("4", 12)],
     [BaseCard EXCEPT !.number = Rep("4", 20), !.expiry = <<"1", "2", "2", "5">>],
     [BaseCard EXCEPT !.expiry = <<"1", "2", "-", "2", "5">>, !.cvv = <<"1", "x", "3">>]}

ValidationInputs == CardInputs \cup ManyFaults

AddAnyCard(card) ==
    /\ card \in ValidationInputs
    /\ Apply(addCard(cards, heap, card), Call("add", card.id, card))
    /\ UNCHANGED <<task, otherVars>>

UpdateAnyCard(card) ==
    /\ card \in ValidationInputs
    /\ Apply(updateCard(cards, heap, card), Call("update", card.id, card))
    /\ UNCHANGED <<task, otherVars>>

ValidationNext ==
    \/ \E card \in ValidationInputs : AddAnyCard(card)
    \/ \E card \in ValidationInputs : UpdateAnyCard(card)

\* addCard and updateCard called with cards of any number of faults
SpecValidation == Init /\ [][ValidationNext]_vars

\* ------------------------------------------------- several callers at once
\* The methods are async functions.  A call runs the body of the function
\* at once, up to its first await, and nothing else runs meanwhile: the other
\* callers' code runs only when the running code has returned or awaits.
\* updateCardLastUsed is taken in its two steps, the read of the card and the
\* write through updateCard, to see what can come between them.

\* as AwaitsAfterRead, an await put between the read and the write
AwaitsAfterReadYes == TRUE

\* updateCardLastUsed has no await between its read and its write
AwaitsAfterRead == FALSE

\* code is running that has not returned and does not await
Running == task.pc # "idle" /\ ~AwaitsAfterRead

\* const card = this.cards.find(...); if (!card) throw ...;
\* const updatedCard = { ...card, lastUsed: new Date() }
MarkUsedRead(cardId) ==
    /\ ~Running
    /\ task.pc = "idle"
    /\ cardId \in IdInputs
    /\ LET card == find(cards, heap, cardId)
       IN  IF card = Null
           THEN /\ last' = [Call("markUsed", cardId, BaseCard) EXCEPT !.err = ErrNotFound]
                /\ UNCHANGED task
           ELSE /\ task' = [pc |-> "read", id |-> cardId,
                            card |-> [heap[card] EXCEPT !.lastUsed = now]]
                /\ UNCHANGED last
    /\ UNCHANGED <<cards, heap, now, otherVars>>

\* return this.updateCard(updatedCard)
MarkUsedWrite ==
    /\ task.pc = "read"
    /\ Apply(updateCard(cards, heap, task.card), Call("markUsed", task.id, BaseCard))
    /\ task' = Idle
    /\ UNCHANGED otherVars

AsyncNext ==
    \/ ~Running /\ GetCards
    \/ ~Running /\ \E card \in CardInputs : AddCard(card)
    \/ ~Running /\ \E card \in CardInputs : UpdateCard(card)
    \/ ~Running /\ \E cardId \in IdInputs : DeleteCard(cardId)
    \/ ~Running /\ \E cardId \in IdInputs : GetCardById(cardId)
    \/ \E cardId \in IdInputs : MarkUsedRead(cardId)
    \/ MarkUsedWrite
    \/ Tick

\* the store called by several callers, their calls in flight together
SpecAsync == Init /\ [][AsyncNext]_vars

\* ------------------------------------------------------- AICardSuggester
\* suggestCard is a function of the transaction, the array of cards and the
\* clock.  Times are counted in days: the code divides the difference of two
\* times in milliseconds by the milliseconds of a day.
MaxList == 2       \* longest array of cards suggestCard is given

RecencyDays == 7   \* daysSinceLastUse < 7

NoAmount == -1     \* cashbackAmount is undefined

Category_OTHER == "other"   \* Category.OTHER

\* perks is undefined
NoPerks == [present |-> FALSE, list |-> <<>>]

\* obj[key] || 0, obj a partial mapping to numbers
OrZero(m, k) == IF k \in DOMAIN m THEN m[k] ELSE 0

\* card.perks[transaction.category]?.length > 0
hasPerks(card, transaction) ==
    /\ transaction.category \in DOMAIN card.perks
    /\ Len(card.perks[transaction.category]) > 0

\* as calculateScore, a card never used taken as used at time 0:
\* new Date(card.lastUsed || 0)
calculateScoreEpochDefault(card, transaction, t) ==
    LET cashbackRate    == OrZero(card.cashback, transaction.category)
        defaultCashback == OrZero(card.cashback, Category_OTHER)
        lastUsed        == IF card.lastUsed = NoDate THEN 0 ELSE card.lastUsed
    IN  (IF cashbackRate > 0 THEN cashbackRate * 10 ELSE defaultCashback * 5)
        + (IF hasPerks(card, transaction) THEN 5 ELSE 0)
        + (IF transaction.category \in card.categories THEN 3 ELSE 0)
        + (IF t - lastUsed < RecencyDays THEN 1 ELSE 0)

\* as calculateScore, the default rate weighted like the category's rate
calculateScoreSameWeight(card, transaction, t) ==
    LET cashbackRate    == OrZero(card.cashback, transaction.category)
        defaultCashback == OrZero(card.cashback, Category_OTHER)
    IN  (IF cashbackRate > 0 THEN cashbackRate * 10 ELSE defaultCashback * 10)
        + (IF hasPerks(card, transaction) THEN 5 ELSE 0)
        + (IF transaction.category \in card.categories THEN 3 ELSE 0)
        + (IF card.lastUsed # NoDate /\ t - card.lastUsed < RecencyDays
           THEN 1 ELSE 0)

\* as calculateScore, a use seven days ago still counted as recent:
\* daysSinceLastUse <= 7
calculateScoreWithinWeek(card, transaction, t) ==
    LET cashbackRate    == OrZero(card.cashback, transaction.category)
        defaultCashback == OrZero(card.cashback, Category_OTHER)
    IN  (IF cashbackRate > 0 THEN cashbackRate * 10 ELSE defaultCashback * 5)
        + (IF hasPerks(card, transaction) THEN 5 ELSE 0)
        + (IF transaction.category \in card.categories THEN 3 ELSE 0)
        + (IF card.lastUsed # NoDate /\ t - card.lastUsed <= RecencyDays
           THEN 1 ELSE 0)

\* as calculateScore, perks worth 6 points
calculateScorePerksSix(card, transaction, t) ==
    LET cashbackRate    == OrZero(card.cashback, transaction.category)
        defaultCashback == OrZero(card.cashback, Category_OTHER)
    IN  (IF cashbackRate > 0 THEN cashbackRate * 10 ELSE defaultCashback * 5)
        + (IF hasPerks(card, transaction) THEN 6 ELSE 0)
        + (IF transaction.category \in card.categories THEN 3 ELSE 0)
        + (IF card.lastUsed # NoDate /\ t - card.lastUsed < RecencyDays
           THEN 1 ELSE 0)

\* calculateScore(card, transaction) at clock reading t
calculateScore(card, transaction, t) ==
    LET cashbackRate    == OrZero(card.cashback, transaction.category)
        defaultCashback == OrZero(card.cashback, Category_OTHER)
    IN  (IF cashbackRate > 0 THEN cashbackRate * 10 ELSE defaultCashback * 5)
        + (IF hasPerks(card, transaction) THEN 5 ELSE 0)
        + (IF transaction.category \in card.categories THEN 3 ELSE 0)
        + (IF card.lastUsed # NoDate /\ t - card.lastUsed < RecencyDays
           THEN 1 ELSE 0)

\* the four sentences of generateReason
ReasonCashbackAndPerks(name, rate, category) ==
    name \o " offers " \o ToString(rate) \o "% cashback on " \o category
         \o " purchases and has additional perks."

ReasonCashback(name, rate, category) ==
    name \o " offers " \o ToString(rate) \o "% cashback on " \o category
         \o " purchases."

ReasonPerks(name, category) ==
    name \o " offers special perks for " \o category \o " purchases."

ReasonBest(name) == name \o " is the best option for this purchase."

\* as generateReason, the rate not falling back to the default rate
generateReasonNoFallback(card, transaction) ==
    LET cashbackRate == OrZero(card.cashback, transaction.category)
        name         == card.name
        category     == transaction.category
    IN  IF cashbackRate > 0 /\ hasPerks(card, transaction)
        THEN ReasonCashbackAndPerks(name, cashbackRate, category)
        ELSE IF cashbackRate > 0 THEN ReasonCashback(name, cashbackRate, category)
        ELSE IF hasPerks(card, transaction) THEN ReasonPerks(name, category)
        ELSE ReasonBest(name)

\* as generateReason, perks taken as present when the entry is defined:
\* card.perks[transaction.category] !== undefined
generateReasonPerksDefined(card, transaction) ==
    LET direct       == OrZero(card.cashback, transaction.category)
        cashbackRate == IF direct # 0 THEN direct ELSE OrZero(card.cashback, Category_OTHER)
        perksDefined == transaction.category \in DOMAIN card.perks
        name         == card.name
        category     == transaction.category
    IN  IF cashbackRate > 0 /\ perksDefined
        THEN ReasonCashbackAndPerks(name, cashbackRate, category)
        ELSE IF cashbackRate > 0 THEN ReasonCashback(name, cashbackRate, category)
        ELSE IF perksDefined THEN ReasonPerks(name, category)
        ELSE ReasonBest(name)

\* generateReason(card, transaction);
\* cashbackRate = cashback[category] || cashback[OTHER] || 0
generateReason(card, transaction) ==
    LET direct       == OrZero(card.cashback, transaction.category)
        cashbackRate == IF direct # 0 THEN direct ELSE OrZero(card.cashback, Category_OTHER)
        name         == card.name
        category     == transaction.category
    IN  IF cashbackRate > 0 /\ hasPerks(card, transaction)
        THEN ReasonCashbackAndPerks(name, cashbackRate, category)
        ELSE IF cashbackRate > 0 THEN ReasonCashback(name, cashbackRate, category)
        ELSE IF hasPerks(card, transaction) THEN ReasonPerks(name, category)
        ELSE ReasonBest(name)

\* the comparator of the sort: (a, b) => b.score - a.score
compare(a, b) == b.score - a.score

\* as InsertSorted, x put before the elements that compare equal to it
InsertSortedBeforeEqual(sorted, x) ==
    LET after == {p \in 1..Len(sorted) : compare(sorted[p], x) >= 0}
        p     == IF after = {} THEN Len(sorted) + 1
                 ELSE CHOOSE q \in after : \A r \in after : q <= r
    IN  SubSeq(sorted, 1, p - 1) \o <<x>> \o SubSeq(sorted, p, Len(sorted))

\* Array.prototype.sort is stable: x goes before the first element that the
\* comparator puts after it, so behind every element that compares equal
InsertSorted(sorted, x) ==
    LET after == {p \in 1..Len(sorted) : compare(sorted[p], x) > 0}
        p     == IF after = {} THEN Len(sorted) + 1
                 ELSE CHOOSE q \in after : \A r \in after : q <= r
    IN  SubSeq(sorted, 1, p - 1) \o <<x>> \o SubSeq(sorted, p, Len(sorted))

RECURSIVE sort(_)
sort(arr) ==
    IF arr = <<>> THEN <<>>
    ELSE InsertSorted(sort(SubSeq(arr, 1, Len(arr) - 1)), arr[Len(arr)])

\* suggestCard returns null
NullSuggestion == [none |-> TRUE, err |-> Ok, index |-> 0, card |-> BaseCard,
                   reason |-> "", cashbackAmount |-> NoAmount, perks |-> NoPerks]

\* as suggestCard, the test of an empty array left out: scoredCards[0] is
\* undefined and reading its card throws a TypeError
suggestCardNoEmptyTest(transaction, cs, t) ==
    IF Len(cs) = 0 THEN [NullSuggestion EXCEPT !.none = FALSE, !.err = "TypeError"]
    ELSE LET scoredCards   == sort([i \in 1..Len(cs) |->
                                  [card  |-> i,
                                   score |-> calculateScore(cs[i], transaction, t)]])
             best          == scoredCards[1].card
             bestCard      == cs[best]
             category      == transaction.category
             cashbackRate  == OrZero(bestCard.cashback, category)
         IN  [none   |-> FALSE,
              err    |-> Ok,
              index  |-> best,
              card   |-> bestCard,
              reason |-> generateReason(bestCard, transaction),
              cashbackAmount |-> IF cashbackRate > 0
                                 THEN (transaction.amount * cashbackRate) \div 100
                                 ELSE NoAmount,
              perks  |-> IF category \in DOMAIN bestCard.perks
                         THEN [present |-> TRUE, list |-> bestCard.perks[category]]
                         ELSE NoPerks]

\* suggestCard(transaction, cards) at clock reading t.  A card of the array is
\* referred to by its index; the amounts are whole multiples of 100, so the
\* division by 100 is exact.
suggestCard(transaction, cs, t) ==
    IF Len(cs) = 0 THEN NullSuggestion
    ELSE LET scoredCards   == sort([i \in 1..Len(cs) |->
                                  [card  |-> i,
                                   score |-> calculateScore(cs[i], transaction, t)]])
             best          == scoredCards[1].card
             bestCard      == cs[best]
             category      == transaction.category
             cashbackRate  == OrZero(bestCard.cashback, category)
         IN  [none   |-> FALSE,
              err    |-> Ok,
              index  |-> best,
              card   |-> bestCard,
              reason |-> generateReason(bestCard, transaction),
              cashbackAmount |-> IF cashbackRate > 0
                                 THEN (transaction.amount * cashbackRate) \div 100
                                 ELSE NoAmount,
              perks  |-> IF category \in DOMAIN bestCard.perks
                         THEN [present |-> TRUE, list |-> bestCard.perks[category]]
                         ELSE NoPerks]

\* --------------------------------------------- the arguments of suggestCard
\* cards A..D differ in their cashback; each comes with or without perks, a
\* declared category or a last use
SugRates ==
    {[BaseCard EXCEPT !.name = "A", !.cashback = [dining |-> 3]],
     [BaseCard EXCEPT !.name = "B", !.cashback = [dining |-> 0, other |-> 1]],
     [BaseCard EXCEPT !.name = "C"],
     [BaseCard EXCEPT !.name = "D", !.cashback = [other |-> 6]]}

SugPerks == {<<>>, [dining |-> <<>>], [dining |-> <<"lounge access">>]}

\* card E has every bonus at once, and a rate one below that of A
SugAllBonuses == [BaseCard EXCEPT !.name       = "E",
                                  !.cashback   = [dining |-> 2],
                                  !.perks      = [dining |-> <<"lounge access">>],
                                  !.categories = {"dining"},
                                  !.lastUsed   = 1]

SugCards ==
    {[c EXCEPT !.perks = p] : c \in SugRates, p \in SugPerks}
    \cup {[c EXCEPT !.perks = p, !.categories = {"dining"}] :
             c \in SugRates, p \in SugPerks}
    \cup {[c EXCEPT !.perks = p, !.lastUsed = 1] : c \in SugRates, p \in SugPerks}
    \cup {SugAllBonuses}

SugTransactions == {[category |-> "dining", amount |-> 100],
                    [category |-> "dining", amount |-> 200],
                    [category |-> Category_OTHER, amount |-> 100]}

\* a day short of the recency limit, and a day past it
SugTimes == {RecencyDays - 1, RecencyDays + 1}

SugLists == UNION {[1..n -> SugCards] : n \in 0..MaxList}

SugInit ==
    /\ StoreInit
    /\ sug \in [pc : {"call"}, transaction : SugTransactions, cards : SugLists,
                now : SugTimes, result : {NullSuggestion}]
    /\ nav = NavInit

\* as cardsAfterSuggest, the argument itself sorted: cards.sort(...) with the
\* scores looked up, Array.prototype.sort rearranging its receiver
cardsAfterSuggestSortedInPlace(transaction, cs, t) ==
    LET scoredCards == sort([i \in 1..Len(cs) |->
                               [card  |-> i,
                                score |-> calculateScore(cs[i], transaction, t)]])
    IN  [i \in 1..Len(cs) |-> cs[scoredCards[i].card]]

\* the caller's array after the call: cards.map(...) makes a new array, which
\* is the one .sort(...) rearranges, and no statement assigns to a card, so
\* the argument is left as it was
cardsAfterSuggest(transaction, cs, t) ==
    LET scoredCards == [i \in 1..Len(cs) |->
                          [card  |-> i,
                           score |-> calculateScore(cs[i], transaction, t)]]
    IN  [i \in 1..Len(cs) |-> cs[scoredCards[i].card]]

\* the call returns
Suggest ==
    /\ sug.pc = "call"
    /\ sug' = [sug EXCEPT !.pc = "done",
                          !.cards  = cardsAfterSuggest(sug.transaction, sug.cards, sug.now),
                          !.result = suggestCard(sug.transaction, sug.cards, sug.now)]
    /\ UNCHANGED <<storeVars, task, nav>>

SugNext == Suggest

\* suggestCard called once, on any transaction, array of cards and clock
SpecSuggest == SugInit /\ [][SugNext]_vars

\* ------------------------------------------------------------ navigation
\* NavigationProvider keeps the history in a state of React.  A render
\* reads the state into `history`, and navigate and goBack are closures of
\* that render.  setHistory(f) queues f; the queued functions are applied in
\* order to the state when React renders next, and until then the closures
\* of the last render can be called again.
MaxHistory == 3    \* longest history the navigation is driven to

MaxQueue == 2      \* most updates queued between two renders

Undefined == "undefined"

\* prev => [...prev, screen]
PushUpdate(screen) == [op |-> "push", screen |-> screen]

\* prev => prev.slice(0, -1)
PopUpdate == [op |-> "pop", screen |-> HOME]

ApplyUpdate(prev, f) ==
    IF f.op = "push" THEN Append(prev, f.screen)
    ELSE SubSeq(prev, 1, Len(prev) - 1)

RECURSIVE ApplyQueue(_, _)
ApplyQueue(prev, queue) ==
    IF queue = <<>> THEN prev
    ELSE ApplyQueue(ApplyUpdate(prev, Head(queue)), Tail(queue))

\* history[history.length - 1]
currentScreen(history) ==
    IF history = <<>> THEN Undefined ELSE history[Len(history)]

\* navigate(screen), called through the closure of the last render
Navigate(screen) ==
    /\ screen \in Screen
    /\ Len(nav.queue) < MaxQueue
    /\ Len(ApplyQueue(nav.history, nav.queue)) < MaxHistory
    /\ nav' = [nav EXCEPT !.queue = Append(@, PushUpdate(screen))]
    /\ UNCHANGED <<storeVars, task, sug>>

\* goBack(), called through the closure of the last render: the test reads
\* the history of that render
GoBack ==
    /\ Len(nav.queue) < MaxQueue
    /\ nav' = IF Len(nav.history) > 1
              THEN [nav EXCEPT !.queue = Append(@, PopUpdate)]
              ELSE nav
    /\ UNCHANGED <<storeVars, task, sug>>

\* React renders the provider again: the queued updates are applied and the
\* new closures read the new state
Render ==
    /\ nav.queue # <<>>
    /\ nav' = [history |-> ApplyQueue(nav.history, nav.queue), queue |-> <<>>]
    /\ UNCHANGED <<storeVars, task, sug>>

NavNext ==
    \/ \E screen \in Screen : Navigate(screen)
    \/ GoBack
    \/ Render

\* the navigation, driven by any calls of navigate and goBack between renders
SpecNav == Init /\ [][NavNext]_vars

\* ======================================================================
\* Properties
\* ======================================================================
View == ListView(cards, heap)

\* the step is a call of `op` by the caller (not a write of the caller to a
\* value it was given, and not the passing of time)
Called(op) ==
    /\ last'.op = op
    /\ last'.edit = "none"
    /\ (last' # last \/ cards' # cards \/ heap' # heap)

\* the store holds a card with this id
Stored(id) == \E i \in 1..Len(cards) : heap[cards[i]].id = id

\* the structural rules of the data model, as the specification words them
DigitsOf(s) == SelectSeq(s, LAMBDA ch : ch \in Digit)

WellFormed(c) ==
    /\ c.id # "" /\ c.name # "" /\ c.cardholderName # ""
    /\ c.number # <<>> /\ c.expiry # <<>> /\ c.cvv # <<>>
    /\ Range(c.number) \subseteq Digit \cup Whitespace
    /\ Len(DigitsOf(c.number)) \in 13..19
    /\ Len(c.expiry) = 5
    /\ c.expiry[3] = "/"
    /\ {c.expiry[1], c.expiry[2], c.expiry[4], c.expiry[5]} \subseteq Digit
    /\ Range(c.cvv) \subseteq Digit
    /\ Len(c.cvv) \in 3..4

DigitSeq == <<"0", "1", "2", "3", "4", "5", "6", "7", "8", "9">>
DigitValue(ch) == (CHOOSE i \in 1..10 : DigitSeq[i] = ch) - 1

\* the first two characters of the expiry are a month, 01..12
MonthInRange(e) ==
    /\ Len(e) >= 2
    /\ e[1] \in Digit /\ e[2] \in Digit
    /\ (10 * DigitValue(e[1]) + DigitValue(e[2])) \in 1..12

\* C1: a successful add(c) followed at once by getById(c.id) returns a card
\* equal to c, whatever the store held before.
C1_AddThenGetByIdRoundTrip ==
    [][(Called("add") /\ last'.err = Ok) =>
          LET r == getCardById(cards', heap', last'.card.id)
          IN  r # Null /\ heap'[r] = last'.card]_vars

\* C2: no two cards held by the store have the same id.
C2_IdsUnique ==
    \A i, j \in 1..Len(cards) : i # j => heap[cards[i]].id # heap[cards[j]].id

\* C3: every card held by the store has its six text fields non-empty, a
\* number of 13 to 19 digits once whitespace is removed, an expiry of two
\* digits, a slash, two digits, and a cvv of 3 or 4 digits.
C3_StoredCardsWellFormed ==
    \A i \in 1..Len(cards) : WellFormed(heap[cards[i]])

C3_Witness ==
    /\ Len(cards) = 2
    /\ last.op = "markUsed" /\ last.err = Ok
    /\ \E i \in 1..2 : \E ch \in Range(heap[cards[i]].number) : ch \in Whitespace
    /\ \E i \in 1..2 : Len(heap[cards[i]].cvv) = 4

\* C4: add of a card that breaks a structural rule fails with a validation
\* error and leaves the list of cards as it was.
C4_RejectedAddChangesNothing ==
    [][(Called("add") /\ ~WellFormed(last'.card)) =>
          /\ last'.err \in ValidationErrors
          /\ ListView(cards', heap') = View]_vars

C4_Witness ==
    /\ last.op = "add" /\ last.edit = "none"
    /\ last.err = ErrCvvFormat
    /\ Len(last.card.cvv) = 5
    /\ Len(cards) > 0

\* C5: add of a card whose expiry does not start with a month 01..12 fails
\* with a validation error and leaves the store as it was.
C5_AddRejectsMonthOutOfRange ==
    [][(Called("add") /\ ~MonthInRange(last'.card.expiry)) =>
          /\ last'.err \in ValidationErrors
          /\ ListView(cards', heap') = View]_vars

\* C6: update of a well-formed card, delete and markUsed, each with an id the
\* store does not hold, fail with the not-found error and leave the list of
\* cards as it was.
C6_NotFoundChangesNothing ==
    [][(/\ ~Stored(last'.id)
        /\ \/ Called("update") /\ WellFormed(last'.card)
           \/ Called("delete")
           \/ Called("markUsed")) =>
          /\ last'.err = ErrNotFound
          /\ ListView(cards', heap') = View]_vars

C6_Witness ==
    /\ last.op = "update" /\ last.edit = "none"
    /\ last.err = ErrNotFound
    /\ Len(cards) > 0
    /\ WellFormed(last.card)

\* C7: a successful update(card) returns card, keeps the length of the list,
\* puts card at a position that held a record with the same id, and leaves
\* every other position as it was.
C7_UpdateReplacesInPlace ==
    [][(Called("update") /\ last'.err = Ok) =>
          /\ Len(cards') = Len(cards)
          /\ last'.ref # Null
          /\ heap'[last'.ref] = last'.card
          /\ \E i \in 1..Len(cards) :
                /\ View[i].id = last'.card.id
                /\ cards'[i] = last'.ref
                /\ \A j \in 1..Len(cards) :
                      j # i => ListView(cards', heap')[j] = View[j]]_vars

C7_Witness ==
    /\ last.op = "update" /\ last.edit = "none" /\ last.err = Ok
    /\ Len(cards) = 2
    /\ last.ref = 2
    /\ heap[cards[1]].id # last.card.id

\* C8: a successful delete(id) returns true; afterwards getById(id) returns
\* null, a second delete(id) fails with not-found, and the cards with another
\* id are all still there in the same order.
C8_DeleteRemovesRecord ==
    [][(Called("delete") /\ last'.err = Ok) =>
          /\ last'.bool = TRUE
          /\ getCardById(cards', heap', last'.id) = Null
          /\ deleteCard(cards', heap', last'.id).err = ErrNotFound
          /\ ListView(cards', heap') =
                SelectSeq(View, LAMBDA c : c.id # last'.id)]_vars

C8_Witness ==
    /\ last.op = "delete" /\ last.edit = "none" /\ last.err = Ok
    /\ Len(cards) = 1
    /\ heap[cards[1]].id # last.id

\* C9: getById never fails and never changes the store; it returns a stored
\* card with the id asked for when the store holds one, and null otherwise.
C9_GetByIdTotalReadOnly ==
    [][Called("getById") =>
          /\ last'.err = Ok
          /\ cards' = cards /\ heap' = heap
          /\ IF Stored(last'.id)
             THEN /\ last'.ref \in Range(cards)
                  /\ heap[last'.ref].id = last'.id
             ELSE last'.ref = Null]_vars

C9_Witness ==
    /\ last.op = "getById" /\ last.edit = "none"
    /\ last.ref # Null
    /\ Len(cards) = 2
    /\ heap[last.ref].id = last.id

\* C10: nothing the caller does to the value list() returned (pushing,
\* popping or reordering elements, or assigning to a field of a card in it)
\* changes what list() and getById() return afterwards.
C10_ListIsIsolatedSnapshot ==
    [][(last'.op = "getCards" /\ last'.edit # "none") =>
          ListView(cards', heap') = View]_vars

\* the lastUsed of the record a lookup of id finds
LastUsedOf(cs, h, id) == h[find(cs, h, id)].lastUsed

StoredIn(cs, h, id) == find(cs, h, id) # Null

C13_MarkUsedIsIndivisible ==
    [][task.pc = "read" =>
          \/ /\ cards' = cards /\ heap' = heap
             /\ task' = task /\ last' = last
          \/ /\ task'.pc = "idle"
             /\ last'.op = "markUsed" /\ last'.id = task.id
             /\ last'.err = Ok
             /\ StoredIn(cards, heap, task.id)
             /\ task.card = [heap[find(cards, heap, task.id)]
                                EXCEPT !.lastUsed = task.card.lastUsed]
             /\ heap'[last'.ref] = task.card]_vars

C13_Witness ==
    /\ task.pc = "read"
    /\ Len(cards) = 2
    /\ last.op = "update" /\ last.err = Ok /\ last.id = task.id

\* ------------------------------------------------ properties of suggestCard
Returned == sug.pc = "done"

\* the score of the i-th card of the array that was passed
ScoreOf(i) == calculateScore(sug.cards[i], sug.transaction, sug.now)

\* C14: on an empty array suggestCard returns null and does not throw; on a
\* non-empty array it returns a suggestion, without throwing, whose card is
\* an element of the array it was given.
C14_NullOnEmptyElseMember ==
    Returned =>
        /\ sug.result.err = Ok
        /\ sug.cards = <<>> => sug.result = NullSuggestion
        /\ sug.cards # <<>> =>
              /\ ~sug.result.none
              /\ sug.result.index \in 1..Len(sug.cards)
              /\ sug.result.card = sug.cards[sug.result.index]

C14_Witness == Returned /\ sug.cards = <<>> /\ sug.result.none

\* C15: the card returned has the greatest score of the array, and every
\* card before it in the array has a strictly smaller score.
C15_FirstMaximum ==
    (Returned /\ sug.cards # <<>>) =>
        /\ \A i \in 1..Len(sug.cards) : ScoreOf(i) <= ScoreOf(sug.result.index)
        /\ \A i \in 1..(sug.result.index - 1) :
              ScoreOf(i) < ScoreOf(sug.result.index)

\* two different cards tie for the greatest score and the first is returned
C15_Witness ==
    /\ Returned
    /\ Len(sug.cards) = 2
    /\ sug.cards[1] # sug.cards[2]
    /\ ScoreOf(1) = ScoreOf(2)
    /\ ScoreOf(1) > 0
    /\ sug.result.index = 1

\* the effective rate as the specification words it: the category's rate if
\* present and above 0, otherwise the rate of `other` if present, otherwise 0
EffectiveRate(card, category) ==
    IF category \in DOMAIN card.cashback /\ card.cashback[category] > 0
    THEN card.cashback[category]
    ELSE IF "other" \in DOMAIN card.cashback THEN card.cashback["other"]
    ELSE 0

\* the card has a non-empty list of perks for the category
PerksPresent(card, category) ==
    category \in DOMAIN card.perks /\ card.perks[category] # <<>>

\* C16: when the effective rate of the returned card for the transaction's
\* category is above 0 the result carries cashbackAmount = amount x rate / 100,
\* and when it is 0 the result carries no cashbackAmount.
C16_CashbackAmountFollowsEffectiveRate ==
    (Returned /\ sug.cards # <<>>) =>
        LET rate == EffectiveRate(sug.result.card, sug.transaction.category)
        IN  IF rate > 0
            THEN sug.result.cashbackAmount * 100 = sug.transaction.amount * rate
            ELSE sug.result.cashbackAmount = NoAmount

\* C17: the reason is the sentence of the one row of the table that the pair
\* (effective rate > 0, perks present) selects, and the rate it prints is the
\* effective rate.
C17_ReasonFollowsDecisionTable ==
    (Returned /\ sug.cards # <<>>) =>
        LET card     == sug.result.card
            category == sug.transaction.category
            rate     == EffectiveRate(card, category)
            perks    == PerksPresent(card, category)
        IN  /\ (rate > 0 /\ perks) =>
                 sug.result.reason = ReasonCashbackAndPerks(card.name, rate, category)
            /\ (rate > 0 /\ ~perks) =>
                 sug.result.reason = ReasonCashback(card.name, rate, category)
            /\ (rate = 0 /\ perks) =>
                 sug.result.reason = ReasonPerks(card.name, category)
            /\ (rate = 0 /\ ~perks) =>
                 sug.result.reason = ReasonBest(card.name)
            /\ Cardinality({ReasonCashbackAndPerks(card.name, rate, category),
                            ReasonCashback(card.name, rate, category),
                            ReasonPerks(card.name, category),
                            ReasonBest(card.name)}) = 4

\* the rate printed is the rate of `other`, the category's rate being 0
C17_Witness ==
    /\ Returned
    /\ sug.cards # <<>>
    /\ sug.transaction.category = "dining"
    /\ OrZero(sug.result.card.cashback, "dining") = 0
    /\ sug.result.reason = "B offers 1% cashback on dining purchases."

\* the cards and the transaction of the scenario
ScenarioA == [BaseCard EXCEPT !.name = "A", !.cashback = [dining |-> 3]]

ScenarioB == [BaseCard EXCEPT !.name = "B", !.cashback = [dining |-> 0, other |-> 1]]

ScenarioCall ==
    /\ sug.cards \in {<<ScenarioA, ScenarioB>>, <<ScenarioB, ScenarioA>>}
    /\ sug.transaction = [category |-> "dining", amount |-> 100]

\* C18: on cards A (dining 3) and B (dining 0, other 1) in either order and
\* a dining transaction of 100, A scores 30 and B scores 5, and the result is
\* A with the reason "A offers 3% cashback on dining purchases." and
\* cashbackAmount 3.
C18_ScenarioDirectBeatsFallback ==
    (Returned /\ ScenarioCall) =>
        /\ \A i \in 1..2 : ScoreOf(i) = IF sug.cards[i] = ScenarioA THEN 30 ELSE 5
        /\ sug.result.card = ScenarioA
        /\ sug.result.reason = "A offers 3% cashback on dining purchases."
        /\ sug.result.cashbackAmount = 3

C18_Witness ==
    /\ Returned
    /\ ScenarioCall
    /\ sug.cards[2] = ScenarioA
    /\ sug.result.index = 2

\* the sentences of a reason that speak of perks
MentionsPerks(reason, card, category) ==
    \/ reason = ReasonPerks(card.name, category)
    \/ \E rate \in {card.cashback[k] : k \in DOMAIN card.cashback} :
          reason = ReasonCashbackAndPerks(card.name, rate, category)

\* C19: the perks of the result are the returned card's list of perks for
\* the transaction's category when the card has an entry for it and absent
\* otherwise, and they are present and non-empty exactly when the reason
\* mentions perks.
C19_PerksCopiedAndMatchReason ==
    (Returned /\ sug.cards # <<>>) =>
        LET card     == sug.result.card
            category == sug.transaction.category
        IN  /\ category \in DOMAIN card.perks =>
                 /\ sug.result.perks.present
                 /\ sug.result.perks.list = card.perks[category]
            /\ category \notin DOMAIN card.perks => ~sug.result.perks.present
            /\ (sug.result.perks.present /\ sug.result.perks.list # <<>>)
                 <=> MentionsPerks(sug.result.reason, card, category)

\* the card has an entry for the category and the entry is an empty list
C19_Witness ==
    /\ Returned
    /\ sug.cards # <<>>
    /\ sug.result.perks.present
    /\ sug.result.perks.list = <<>>
    /\ sug.result.reason = "A offers 3% cashback on dining purchases."

\* what the caller sees of a result
OutcomeOf(result) ==
    [none |-> result.none, index |-> result.index, card |-> result.card,
     reason |-> result.reason, cashbackAmount |-> result.cashbackAmount,
     perks |-> result.perks]

\* C20: the clock enters only through the recency bonus: the score of a card
\* with no lastUsed is the same at every reading of the clock, and when no
\* card of the array has lastUsed the call returns the same card, reason,
\* cashbackAmount and perks at every reading of the clock.
C20_ClockOnlyThroughRecency ==
    Returned =>
        /\ \A i \in 1..Len(sug.cards) :
              sug.cards[i].lastUsed = NoDate =>
                 \A t \in SugTimes :
                    calculateScore(sug.cards[i], sug.transaction, t) = ScoreOf(i)
        /\ (\A i \in 1..Len(sug.cards) : sug.cards[i].lastUsed = NoDate) =>
              \A t \in SugTimes :
                 OutcomeOf(suggestCard(sug.transaction, sug.cards, t))
                    = OutcomeOf(sug.result)

\* two cards never used, the call made a day short of the recency limit
C20_Witness ==
    /\ Returned
    /\ Len(sug.cards) = 2
    /\ \A i \in 1..2 : sug.cards[i].lastUsed = NoDate
    /\ sug.cards[1] # sug.cards[2]
    /\ sug.now = RecencyDays - 1
    /\ \E t \in SugTimes : t # sug.now

\* C21: a call of suggestCard leaves the array it was given in its order and
\* length, every field of every card of it and the transaction as they were,
\* and leaves the state of the card store as it was.
C21_SuggestHasNoSideEffects ==
    [][(sug.pc = "call" /\ sug'.pc = "done") =>
          /\ sug'.cards = sug.cards
          /\ sug'.transaction = sug.transaction
          /\ sug'.now = sug.now
          /\ UNCHANGED <<storeVars, task>>]_vars

\* the card returned is not the first of the array, which a sort of the
\* argument would have moved to the front
C21_Witness ==
    /\ Returned
    /\ Len(sug.cards) = 2
    /\ sug.result.index = 2
    /\ sug.result.card = sug.cards[2]
    /\ sug.cards[1] # sug.cards[2]

\* the rules of validation in the order the specification gives them, each
\* with the error that reports it
Rules(c) ==
    <<[broken |-> c.id = "",             err |-> ErrId],
      [broken |-> c.name = "",           err |-> ErrName],
      [broken |-> c.number = <<>>,       err |-> ErrNumber],
      [broken |-> c.expiry = <<>>,       err |-> ErrExpiry],
      [broken |-> c.cvv = <<>>,          err |-> ErrCvv],
      [broken |-> c.cardholderName = "", err |-> ErrHolder],
      [broken |-> ~(/\ Range(c.number) \subseteq Digit \cup Whitespace
                    /\ Len(DigitsOf(c.number)) \in 13..19),
       err |-> ErrNumberFormat],
      [broken |-> ~(/\ Len(c.expiry) = 5
                    /\ c.expiry[3] = "/"
                    /\ {c.expiry[1], c.expiry[2], c.expiry[4], c.expiry[5]}
                          \subseteq Digit),
       err |-> ErrExpiryFormat],
      [broken |-> ~(Range(c.cvv) \subseteq Digit /\ Len(c.cvv) \in 3..4),
       err |-> ErrCvvFormat]>>

Broken(c) == {i \in 1..Len(Rules(c)) : Rules(c)[i].broken}

\* the error of the first rule the card breaks, Ok when it breaks none
FirstFault(c) ==
    IF Broken(c) = {} THEN Ok
    ELSE Rules(c)[CHOOSE i \in Broken(c) : \A j \in Broken(c) : i <= j].err

\* C22: add and update report the error of the first rule the card breaks,
\* in the order id, name, number, expiry, cvv, cardholderName present, number
\* format, expiry format, cvv format; they report a validation error for the
\* same cards; and update reports it whether or not the id is stored.
C22_ValidationFailsFastInOrder ==
    [][(Called("add") \/ Called("update")) =>
          /\ FirstFault(last'.card) # Ok => last'.err = FirstFault(last'.card)
          /\ FirstFault(last'.card) = Ok => last'.err \notin ValidationErrors]_vars

\* update of a card whose expiry and CVV are both malformed and whose id is
\* not stored: the error is that of the expiry
C22_Witness ==
    /\ last.op = "update"
    /\ Cardinality(Broken(last.card)) = 2
    /\ ~Stored(last.card.id)
    /\ last.err = ErrExpiryFormat
    /\ ErrCvvFormat \in {Rules(last.card)[i].err : i \in Broken(last.card)}

\* the four terms of the score as the specification words them
CashbackTerm(card, category) ==
    IF category \in DOMAIN card.cashback /\ card.cashback[category] > 0
    THEN 10 * card.cashback[category]
    ELSE IF "other" \in DOMAIN card.cashback THEN 5 * card.cashback["other"]
    ELSE 0

PerksTerm(card, category) == IF PerksPresent(card, category) THEN 5 ELSE 0

CategoryTerm(card, category) == IF category \in card.categories THEN 3 ELSE 0

RecencyTerm(card, t) ==
    IF card.lastUsed # NoDate /\ t - card.lastUsed < 7 THEN 1 ELSE 0

\* C23: the score of a card is the sum of the cashback term (10 x the
\* category's rate when above 0, otherwise 5 x the rate of `other`), 5 for
\* perks, 3 for a declared category and 1 for a use less than 7 days ago,
\* with nothing for a use exactly 7 days ago or for a card never used.
C23_ScoreIsSumOfFourTerms ==
    Returned =>
        \A i \in 1..Len(sug.cards) :
            ScoreOf(i) = CashbackTerm(sug.cards[i], sug.transaction.category)
                         + PerksTerm(sug.cards[i], sug.transaction.category)
                         + CategoryTerm(sug.cards[i], sug.transaction.category)
                         + RecencyTerm(sug.cards[i], sug.now)

\* card E, used exactly 7 days ago: 20 + 5 + 3 and no recency bonus
C23_Witness ==
    /\ Returned
    /\ sug.cards # <<>>
    /\ sug.cards[1] = SugAllBonuses
    /\ sug.transaction.category = "dining"
    /\ sug.now - sug.cards[1].lastUsed = 7
    /\ ScoreOf(1) = 28

\* the rate a card is scored on: the category's rate when above 0, otherwise
\* the rate of `other`
ScoredRate(card, category) == EffectiveRate(card, category)

\* the category's own rate of a card, 0 when it has none
DirectRate(card, category) ==
    IF category \in DOMAIN card.cashback THEN card.cashback[category] ELSE 0

\* C27: the bonuses of a card that are not cashback sum to at most 9, and a
\* card whose rate for the category is at least 1 above the rate another card
\* is scored on has the strictly greater score, whatever the perks, declared
\* categories and last use of the two, and the other card is not returned.
C27_CashbackDominatesBonuses ==
    Returned =>
        LET category == sug.transaction.category
        IN  /\ \A i \in 1..Len(sug.cards) :
                  ScoreOf(i) - CashbackTerm(sug.cards[i], category) \in 0..9
            /\ \A i, j \in 1..Len(sug.cards) :
                  DirectRate(sug.cards[i], category)
                     >= ScoredRate(sug.cards[j], category) + 1
                  => /\ ScoreOf(i) > ScoreOf(j)
                     /\ sug.result.index # j

\* card E, rate 2 with 9 points of bonuses, before card A, rate 3 with none:
\* 29 against 30, and A is returned
C27_Witness ==
    /\ Returned
    /\ Len(sug.cards) = 2
    /\ sug.cards[1] = SugAllBonuses
    /\ sug.cards[2] = ScenarioA
    /\ sug.transaction.category = "dining"
    /\ ScoreOf(1) = 29
    /\ ScoreOf(2) = 30
    /\ sug.result.index = 2

\* the ids the store holds, position by position
IdsOf(cs, h) == [i \in 1..Len(cs) |-> h[cs[i]].id]

\* C24: a call of update or markUsed, successful or not, leaves the sequence
\* of ids of the store as it was; the set of ids changes only by a successful
\* add, which adds the id of the new card, or by a successful delete, which
\* removes the id given.
C24_IdsImmutableOnceStored ==
    [][/\ (Called("update") \/ Called("markUsed")) =>
             IdsOf(cards', heap') = IdsOf(cards, heap)
       /\ Range(IdsOf(cards', heap')) # Range(IdsOf(cards, heap)) =>
             \/ /\ Called("add")
                /\ last'.err = Ok
                /\ Range(IdsOf(cards', heap'))
                      = Range(IdsOf(cards, heap)) \cup {last'.card.id}
             \/ /\ Called("delete")
                /\ last'.err = Ok
                /\ Range(IdsOf(cards', heap'))
                      = Range(IdsOf(cards, heap)) \ {last'.id}]_vars

\* an update has replaced every field but the id of the second of two records
C24_Witness ==
    /\ last.op = "update" /\ last.edit = "none" /\ last.err = Ok
    /\ IdsOf(cards, heap) = <<"a", "b">>
    /\ last.ref = 2
    /\ heap[cards[1]].name # heap[cards[2]].name

\* C25: a successful markUsed(id) leaves the record with that id at its
\* position with every field but lastUsed as it was, sets its lastUsed to the
\* time of the call, returns the stored record, and leaves every other record
\* of the store as it was.
C25_MarkUsedChangesOnlyLastUsed ==
    [][(Called("markUsed") /\ last'.err = Ok) =>
          /\ Len(cards') = Len(cards)
          /\ last'.ref # Null
          /\ \E i \in 1..Len(cards) :
                /\ View[i].id = last'.id
                /\ cards'[i] = last'.ref
                /\ heap'[last'.ref] = [View[i] EXCEPT !.lastUsed = now]
                /\ \A j \in 1..Len(cards) :
                      j # i => ListView(cards', heap')[j] = View[j]]_vars

\* the second of two records is stamped, the first is not
C25_Witness ==
    /\ last.op = "markUsed" /\ last.edit = "none" /\ last.err = Ok
    /\ Len(cards) = 2
    /\ last.ref = 2
    /\ heap[cards[2]].lastUsed = now
    /\ heap[cards[1]].lastUsed # now
    /\ heap[cards[2]].name = "M"

\* C26: a successful add puts the card at the end of the list, which is one
\* longer, with the earlier cards as they were; a successful delete makes the
\* list exactly one shorter; update, markUsed, list, getById and every call
\* that fails leave its length as it was.
C26_SizeAccounting ==
    [][/\ (Called("add") /\ last'.err = Ok) =>
             /\ Len(cards') = Len(cards) + 1
             /\ heap'[cards'[Len(cards')]] = last'.card
             /\ SubSeq(ListView(cards', heap'), 1, Len(cards)) = View
       /\ (Called("delete") /\ last'.err = Ok) => Len(cards') = Len(cards) - 1
       /\ (\/ Called("update") \/ Called("markUsed") \/ Called("getCards")
           \/ Called("getById")
           \/ last'.err # Ok) => Len(cards') = Len(cards)]_vars

\* C28: after any calls of navigate and goBack, several goBack of one render
\* included, the history has at least one element, its first element is HOME
\* and currentScreen is its last element, a screen.
C28_HistoryNeverEmpty ==
    /\ Len(nav.history) >= 1
    /\ nav.history[1] = HOME
    /\ currentScreen(nav.history) = nav.history[Len(nav.history)]
    /\ currentScreen(nav.history) \in Screen

====
